---- MODULE Spec2Model ----
(***************************************************************************)
(* Model of src/canvas-to-bmp.ts: the class CanvasToBMP.                   *)
(*                                                                         *)
(*   - fromURI / fromDataURL: a promise settled by the load or the error   *)
(*     event of an Image;                                                  *)
(*   - toArrayBuffer: the 24-bit BMP encoder, modelled statement by        *)
(*     statement: the variable declarations of lines 41-55, the header     *)
(*     writes of lines 58-73 (one step per setU16 / setU32 / skip), the    *)
(*     pixel loop of lines 76-89 (one step per inner iteration) and the    *)
(*     return of line 91.                                                  *)
(*                                                                         *)
(* Byte buffers are sequences of integers in 0..255; the byte at offset i  *)
(* of a buffer b is b[i + 1].                                              *)
(***************************************************************************)
EXTENDS Integers, Sequences, FiniteSets

(***************************************************************************)
(* Bounds of the model.                                                    *)
(***************************************************************************)
MaxW == 5
MaxH == 3
NumPatterns == 4
MaxCalls == 2

(***************************************************************************)
(* Program constants.                                                      *)
(***************************************************************************)
headerSize == 14
DIBHeaderSize == 40
\* 0x4d42, written little-endian: the bytes 'B' 'M'
Magic == 19778
\* 0x2e23
PixelsPerMeter == 11811

VARIABLES
    surface,      \* the pixel surface supplied from outside: width, height, RGBA bytes
    img,          \* fromURI: state of the Image element
    elt,          \* fromURI: the canvas element created by document.createElement
    promise,      \* fromURI: the returned promise
    self,         \* the constructed CanvasToBMP: <<>> or <<its canvas>>
    pc,           \* toArrayBuffer: position in the method
    call,         \* number of toArrayBuffer calls started
    w, h, w3,     \* toArrayBuffer locals
    idata,        \* the bytes of idata.data, which data32 views as 32-bit words
    stride, pixelArraySize, fileLength,
    file,
    pos, s, y, x, p,
    hstep,        \* index of the next header statement (lines 58-73)
    result,       \* what the call gave its caller
    prev,         \* the previous call: its input and what it gave its caller
    log,          \* history: every DataView write, as [off, n, src]
    reads         \* history: every index of data32 that was read

vars == << surface, img, elt, promise, self, pc, call, w, h, w3, idata,
           stride, pixelArraySize, fileLength, file, pos, s, y, x, p,
           hstep, result, prev, log, reads >>

encVars == << w, h, w3, idata, stride, pixelArraySize, fileLength, file,
              pos, s, y, x, p, hstep, log, reads >>

uriVars == << img, elt, promise >>

(***************************************************************************)
(* Bytes and words.                                                        *)
(***************************************************************************)
Pow2(n) == 2 ^ n

Zeros(n) == [i \in 1..n |-> 0]

\* DataView.setUint16 / setUint32 with littleEndian = true: the value is
\* taken modulo 2^(8n) and stored least significant byte first.  Byte i of
\* v modulo 2^(8n) is floor(v / 256^(i-1)) modulo 256 for every i <= n.
LEBytes(v, n) == [i \in 1..n |-> (v \div Pow2(8 * (i - 1))) % 256]

\* The little-endian unsigned integer held by the n bytes of b at offset off.
RECURSIVE LEValue(_, _, _)
LEValue(b, off, n) ==
    IF n = 0 THEN 0 ELSE b[off + 1] + 256 * LEValue(b, off + 1, n - 1)

\* A DataView write is in bounds iff [off, off + n) lies inside the buffer;
\* otherwise the DataView throws a RangeError.
InBounds(b, off, n) == off >= 0 /\ off + n <= Len(b)

Store(b, off, bytes) ==
    [i \in 1..Len(b) |->
        IF i > off /\ i <= off + Len(bytes) THEN bytes[i - off] ELSE b[i]]

(***************************************************************************)
(* The pixel surfaces the model draws its inputs from.                     *)
(***************************************************************************)
Palette ==
    << <<255, 0, 0, 255>>, <<0, 255, 0, 255>>, <<1, 2, 3, 0>>, <<250, 128, 7, 255>> >>

\* Pixel number i (row-major, top row first) of pattern k.  The triangular
\* numbers keep the rows of an image different from one another.
PatternPixel(k, i) == Palette[(((i * (i + 1)) \div 2 + k) % Len(Palette)) + 1]

\* n bytes of pattern k in R,G,B,A order.
PatternData(k, n) == [j \in 1..n |-> PatternPixel(k, (j - 1) \div 4)[((j - 1) % 4) + 1]]

LenDeltas == {0, -1, -4, 4}

Max0(n) == IF n < 0 THEN 0 ELSE n

Surfaces ==
    { [width |-> sw, height |-> sh, data |-> PatternData(k, Max0(sw * sh * 4 + d))] :
        sw \in 0..MaxW, sh \in 0..MaxH, k \in 0..(NumPatterns - 1), d \in LenDeltas }

ValidSurface(c) ==
    c.width >= 1 /\ c.height >= 1 /\ Len(c.data) = c.width * c.height * 4

\* The same surface with the alpha byte of every pixel replaced by a.
WithAlpha(c, a) ==
    [c EXCEPT !.data = [j \in 1..Len(c.data) |-> IF j % 4 = 0 THEN a ELSE c.data[j]]]

Alphas == {0, 128, 255}
(***************************************************************************)
(* Canvas elements: width, height and the bitmap getImageData reads back.  *)
(* A blank canvas is transparent black whatever its size.                  *)
(***************************************************************************)
\* document.createElement('canvas'): 300 x 150, transparent black.
NewCanvas == [width |-> 300, height |-> 150, blank |-> TRUE, data |-> << >>]

\* The canvas a caller hands to the constructor, holding the surface.
CanvasOf(c) == [width |-> c.width, height |-> c.height, blank |-> FALSE, data |-> c.data]

\* drawImage(img, 0, 0) on a transparent-black canvas of the image's size:
\* source-over compositing keeps an opaque pixel and leaves a fully
\* transparent one transparent black.
DrawImage(d) ==
    [j \in 1..Len(d) |-> IF d[4 * ((j - 1) \div 4) + 4] = 0 THEN 0 ELSE d[j]]

\* The outcomes of getImageData(0, 0, w, h).data on canvas c.  A canvas of
\* the DOM throws IndexSizeError for a zero-sized rectangle; the encoder's
\* code does not rely on it, so a provider returning no pixels is an
\* outcome too.
GetImageData(c) ==
    LET bytes == IF c.blank THEN Zeros(c.width * c.height * 4) ELSE c.data
    IN  IF c.width = 0 \/ c.height = 0
        THEN { [threw |-> TRUE, data |-> << >>], [threw |-> FALSE, data |-> bytes] }
        ELSE { [threw |-> FALSE, data |-> bytes] }

(***************************************************************************)
(* The encoder's arithmetic, lines 49-51 and 77-83.                        *)
(***************************************************************************)
\* Faulty variant: a row one byte short of its pixels.
StrideMut(cw) == ((24 * cw + 23) \div 24) * 3 - 1

\* stride = Math.floor((24 * w + 23) / 24) * 3
Stride(cw) == ((24 * cw + 23) \div 24) * 3

PixelArraySize(st, ch) == st * ch

FileLength(pas) == headerSize + DIBHeaderSize + pas

\* Faulty variant: rows stored top to bottom.
RowOffsetMut(ch, cy, st) == headerSize + DIBHeaderSize + (cy * st)

\* p = headerSize + DIBHeaderSize + ((h - y - 1) * stride)
RowOffset(ch, cy, st) == headerSize + DIBHeaderSize + ((ch - cy - 1) * st)

\* new Uint32Array(idata.data.buffer): element i is the 32-bit word held by
\* bytes 4i .. 4i+3, least significant byte first.  An unsigned 32-bit word
\* v exceeds the integers of the model checker, so it is held as its two
\* 16-bit halves: v = 65536 * v.hi + v.lo.
Data32Length(d) == Len(d) \div 4

Data32(d, i) == [lo |-> LEValue(d, 4 * i, 2), hi |-> LEValue(d, 4 * i + 2, 2)]

\* r = v % 256
Red(v) == v.lo % 256

\* g = (v >>> 8) % 256, and v >>> 8 = 256 * v.hi + floor(v.lo / 256)
Green(v) == (256 * v.hi + (v.lo \div Pow2(8))) % 256

\* Faulty variant: the alpha byte, (v >>> 24) % 256, taken for blue.
BlueMut(v) == (v.hi \div Pow2(8)) % 256

\* b = (v >>> 16) % 256, and v >>> 16 = v.hi
Blue(v) == v.hi % 256

\* The three bytes lines 85-87 store for word number i of data32.  A read
\* past the end of data32 gives undefined; undefined % 256 is NaN and
\* undefined >>> n is 0, and setUint8 stores either as 0.
PixelBytes(d, i) ==
    IF i >= 0 /\ i < Data32Length(d)
    THEN << Blue(Data32(d, i)), Green(Data32(d, i)), Red(Data32(d, i)) >>
    ELSE << 0, 0, 0 >>

(***************************************************************************)
(* The header statements, lines 58-73, in program order.                   *)
(***************************************************************************)
U16(v) == [op |-> "set", n |-> 2, v |-> v]

U32(v) == [op |-> "set", n |-> 4, v |-> v]

Skip(n) == [op |-> "skip", n |-> n, v |-> 0]

\* Faulty variant: the length of the pixel array written as the file length.
FileHeaderMut(fl) ==
    << U16(Magic), U32(fl - headerSize - DIBHeaderSize), Skip(4),
       U32(headerSize + DIBHeaderSize) >>

\* lines 58-61
FileHeader(fl) ==
    << U16(Magic), U32(fl), Skip(4), U32(headerSize + DIBHeaderSize) >>

\* Faulty variant: the height written negated (top-to-bottom in BMP).
DIBHeaderMut(cw, ch, pas) ==
    << U32(DIBHeaderSize), U32(cw), U32(0 - ch), U16(1), U16(24), U32(0),
       U32(pas), U32(PixelsPerMeter), U32(PixelsPerMeter), Skip(8) >>

\* lines 64-73; h >>> 0 is h modulo 2^32, which setUint32 stores as it
\* stores h
DIBHeader(cw, ch, pas) ==
    << U32(DIBHeaderSize), U32(cw), U32(ch), U16(1), U16(24), U32(0),
       U32(pas), U32(PixelsPerMeter), U32(PixelsPerMeter), Skip(8) >>

HeaderOps(fl, cw, ch, pas) == FileHeader(fl) \o DIBHeader(cw, ch, pas)

(***************************************************************************)
(* Results of a call.                                                      *)
(***************************************************************************)
NoResult == [kind |-> "none", bytes |-> << >>]

\* A finished call as the caller remembers it: its input and what it gave.
NoCall == [kind |-> "none", bytes |-> << >>, w |-> 0, h |-> 0, idata |-> << >>]

Returned(b) == [kind |-> "returned", bytes |-> b]

Threw(e) == [kind |-> e, bytes |-> << >>]

Errors == {"e1", "e2"}

NoPromise == [state |-> "none", value |-> << >>]

\* resolve / reject of a promise: only a pending promise changes.
Settle(pr, st, v) == IF pr.state = "pending" THEN [state |-> st, value |-> v] ELSE pr

Init ==
    /\ surface \in Surfaces
    /\ img = [state |-> "none", err |-> ""]
    /\ elt = << >>
    /\ promise = NoPromise
    /\ self = << >>
    /\ pc = "idle"
    /\ call = 0
    /\ w = 0 /\ h = 0 /\ w3 = 0
    /\ idata = << >>
    /\ stride = 0 /\ pixelArraySize = 0 /\ fileLength = 0
    /\ file = << >>
    /\ pos = 0 /\ s = 0 /\ y = 0 /\ x = 0 /\ p = 0
    /\ hstep = 1
    /\ result = NoResult
    /\ prev = NoCall
    /\ log = << >>
    /\ reads = << >>

(***************************************************************************)
(* new CanvasToBMP(canvas), lines 6-8.                                     *)
(***************************************************************************)
Constructor ==
    /\ self = << >>
    /\ promise.state = "none"
    /\ self' = << CanvasOf(surface) >>
    /\ UNCHANGED << surface, pc, call, result, prev >>
    /\ UNCHANGED uriVars
    /\ UNCHANGED encVars

(***************************************************************************)
(* fromURI, lines 13-30 (fromDataURL, lines 10-12, only forwards to it).   *)
(***************************************************************************)
FromURI ==
    /\ self = << >>
    /\ promise.state = "none"
    /\ promise' = [state |-> "pending", value |-> << >>]
    /\ elt' = << NewCanvas >>
    /\ img' = [state |-> "loading", err |-> ""]
    /\ UNCHANGED << surface, self, pc, call, result, prev >>
    /\ UNCHANGED encVars

\* img.onload, lines 18-23; the image decodes to the surface.
OnLoad ==
    /\ img.state = "loading"
    /\ ValidSurface(surface)
    /\ LET c == [width |-> surface.width, height |-> surface.height,
                 blank |-> FALSE, data |-> DrawImage(surface.data)]
       IN  /\ elt' = << c >>
           /\ self' = << c >>
           /\ promise' = Settle(promise, "fulfilled", << c >>)
    /\ img' = [state |-> "loaded", err |-> ""]
    /\ UNCHANGED << surface, pc, call, result, prev >>
    /\ UNCHANGED encVars

\* Faulty variant: the error handler resolves with a CanvasToBMP of the
\* canvas nothing was drawn on.
OnErrorMut(err) ==
    /\ img.state = "loading"
    /\ self' = elt
    /\ promise' = Settle(promise, "fulfilled", elt)
    /\ img' = [state |-> "failed", err |-> err]
    /\ UNCHANGED << surface, elt, pc, call, result, prev >>
    /\ UNCHANGED encVars

\* img.onerror, lines 24-26
OnError(err) ==
    /\ img.state = "loading"
    /\ promise' = Settle(promise, "rejected", << err >>)
    /\ img' = [state |-> "failed", err |-> err]
    /\ UNCHANGED << surface, elt, self, pc, call, result, prev >>
    /\ UNCHANGED encVars
(***************************************************************************)
(* toArrayBuffer, lines 40-96.                                             *)
(***************************************************************************)
\* The call ends by throwing e: nothing is returned.
Throw(e) ==
    /\ pc' = "done"
    /\ result' = Threw(e)

\* lines 41-55: the declarations.  getImageData may throw; new Uint32Array
\* throws RangeError unless the byte length is a multiple of 4; new
\* ArrayBuffer throws RangeError for a negative length and is zero-filled.
Begin ==
    /\ pc = "idle"
    /\ Len(self) = 1
    /\ call < MaxCalls
    /\ call' = call + 1
    /\ \E got \in GetImageData(self[1]) :
         LET cw  == self[1].width
             ch  == self[1].height
             st  == Stride(cw)
             pas == PixelArraySize(st, ch)
             fl  == FileLength(pas)
         IN  /\ w' = cw /\ h' = ch /\ w3' = cw * 3
             /\ idata' = got.data
             /\ stride' = st /\ pixelArraySize' = pas /\ fileLength' = fl
             /\ pos' = 0 /\ s' = 0 /\ y' = 0 /\ x' = 0 /\ p' = 0
             /\ hstep' = 1
             /\ log' = << >>
             /\ reads' = << >>
             /\ IF got.threw
                THEN Throw("IndexSizeError") /\ file' = << >>
                ELSE IF Len(got.data) % 4 # 0 \/ fl < 0
                THEN Throw("RangeError") /\ file' = << >>
                ELSE /\ file' = Zeros(fl)
                     /\ pc' = "header"
                     /\ result' = NoResult
    /\ UNCHANGED << surface, self, prev >>
    /\ UNCHANGED uriVars

\* lines 58-73: one of setU16(data), setU32(data), pos += n
HeaderStep ==
    /\ pc = "header"
    /\ LET ops == HeaderOps(fileLength, w, h, pixelArraySize)
           op  == ops[hstep]
       IN  IF op.op = "set" /\ ~InBounds(file, pos, op.n)
           THEN /\ Throw("RangeError")
                /\ UNCHANGED << file, pos, hstep, log >>
           ELSE /\ file' = IF op.op = "set" THEN Store(file, pos, LEBytes(op.v, op.n))
                                             ELSE file
                /\ log' = IF op.op = "set"
                          THEN Append(log, [off |-> pos, n |-> op.n, src |-> -1])
                          ELSE log
                /\ pos' = pos + op.n
                /\ hstep' = hstep + 1
                /\ pc' = IF hstep = Len(ops) THEN "rows" ELSE "header"
                /\ UNCHANGED result
    /\ UNCHANGED << surface, self, call, prev, w, h, w3, idata, stride,
                    pixelArraySize, fileLength, s, y, x, p, reads >>
    /\ UNCHANGED uriVars

\* lines 76-77: the test of the outer loop and the row's offset
RowStep ==
    /\ pc = "rows"
    /\ IF y < h
       THEN /\ p' = RowOffset(h, y, stride)
            /\ x' = 0
            /\ pc' = "cols"
       ELSE /\ pc' = "return"
            /\ UNCHANGED << p, x >>
    /\ UNCHANGED << surface, self, call, result, prev, w, h, w3, idata, stride,
                    pixelArraySize, fileLength, file, pos, s, y, hstep, log, reads >>
    /\ UNCHANGED uriVars

\* lines 78-88: the test of the inner loop and one pixel; line 76: y++
ColStep ==
    /\ pc = "cols"
    /\ IF x < w3
       THEN /\ reads' = Append(reads, s)
            /\ s' = s + 1
            /\ IF InBounds(file, p + x, 3)
               THEN /\ file' = Store(file, p + x, PixelBytes(idata, s))
                    /\ log' = Append(log, [off |-> p + x, n |-> 3, src |-> s])
                    /\ x' = x + 3
                    /\ UNCHANGED << pc, result, y >>
               ELSE /\ Throw("RangeError")
                    /\ UNCHANGED << file, log, x, y >>
       ELSE /\ y' = y + 1
            /\ pc' = "rows"
            /\ UNCHANGED << reads, s, file, log, x, result >>
    /\ UNCHANGED << surface, self, call, prev, w, h, w3, idata, stride,
                    pixelArraySize, fileLength, pos, p, hstep >>
    /\ UNCHANGED uriVars

\* line 91: return file
Return ==
    /\ pc = "return"
    /\ pc' = "done"
    /\ result' = Returned(file)
    /\ UNCHANGED << surface, self, call, prev >>
    /\ UNCHANGED encVars
    /\ UNCHANGED uriVars

(***************************************************************************)
(* Between two calls the caller may redraw the canvas so that every pixel  *)
(* keeps its R, G and B and takes alpha a; the next call starts from the   *)
(* redrawn canvas.                                                         *)
(***************************************************************************)
Redraw(a) ==
    /\ pc = "done"
    /\ call < MaxCalls
    /\ result.kind = "returned"
    /\ ~self[1].blank
    /\ self' = << WithAlpha(self[1], a) >>
    /\ prev' = [kind |-> result.kind, bytes |-> result.bytes,
                 w |-> w, h |-> h, idata |-> idata]
    /\ pc' = "idle"
    /\ UNCHANGED << surface, call, result >>
    /\ UNCHANGED encVars
    /\ UNCHANGED uriVars

Next ==
    \/ Constructor
    \/ FromURI
    \/ OnLoad
    \/ \E err \in Errors : OnError(err)
    \/ Begin
    \/ HeaderStep
    \/ RowStep
    \/ ColStep
    \/ Return
    \/ \E a \in Alphas : Redraw(a)

Spec == Init /\ [][Next]_vars
(***************************************************************************)
(* Vocabulary of the properties.                                           *)
(***************************************************************************)
\* A call was started on a valid input: width >= 1, height >= 1 and
\* width * height * 4 bytes of pixels.
ValidCall ==
    /\ call >= 1
    /\ Len(self) = 1
    /\ w >= 1 /\ h >= 1
    /\ Len(idata) = w * h * 4

\* A call on a valid input has ended.
ValidDone == pc = "done" /\ ValidCall

\* The n bytes of buffer b at offset off.
Field(b, off, n) == SubSeq(b, off + 1, off + n)

\* Byte number c (0 = R, 1 = G, 2 = B, 3 = A) of source pixel (px, py).
Src(px, py, c) == idata[4 * (py * w + px) + c + 1]

\* Row length the BMP format requires: 3 * width rounded up to a multiple of 4.
BmpStride(cw) == ((cw * 3 + 3) \div 4) * 4

\* A BMP reader: width and height from the DIB header, the pixel array from
\* the offset of the file header, rows of BmpStride bytes, stored row 0 the
\* bottom row of the image.
ReaderOffset(b, px, py) ==
    LEValue(b, 10, 4) + (LEValue(b, 22, 4) - 1 - py) * BmpStride(LEValue(b, 18, 4)) + 3 * px

\* C1: for every width >= 1 and height >= 1 the returned buffer has
\* 54 + stride * height bytes, where stride is 3 * width rounded up to the
\* next multiple of 4 (58 bytes for 1 x 1, 62 bytes for 2 x 1).
C1_PaddedLength ==
    ValidDone =>
        /\ result.kind = "returned"
        /\ Len(result.bytes) = 54 + BmpStride(w) * h
        /\ BmpStride(w) % 4 = 0

\* C2: a conformant BMP reader gets from the returned buffer the R, G, B
\* of every source pixel (x, y) and never reads past the buffer's end.
C2_ReaderRoundTrip ==
    ValidDone =>
        /\ result.kind = "returned"
        /\ \A py \in 0..(h - 1) : \A px \in 0..(w - 1) :
             LET off == ReaderOffset(result.bytes, px, py)
             IN  /\ InBounds(result.bytes, off, 3)
                 /\ Field(result.bytes, off, 3) =
                        << Src(px, py, 2), Src(px, py, 1), Src(px, py, 0) >>

\* C3: the file header is 'B' 'M', the little-endian total length of the
\* returned buffer at offset 2, four zero bytes at offsets 6-9 and the
\* little-endian value 54 at offset 10.
C3_FileHeader ==
    ValidDone =>
        /\ result.kind = "returned"
        /\ Len(result.bytes) >= 54
        /\ Field(result.bytes, 0, 2) = << 66, 77 >>
        /\ Field(result.bytes, 2, 4) = LEBytes(Len(result.bytes), 4)
        /\ Field(result.bytes, 6, 4) = << 0, 0, 0, 0 >>
        /\ Field(result.bytes, 10, 4) = << 54, 0, 0, 0 >>

C3_Witness ==
    /\ ValidDone
    /\ result.kind = "returned"
    /\ w = 3 /\ h = 2
    /\ Field(result.bytes, 2, 4) = << 72, 0, 0, 0 >>

InvalidDimensions == self[1].width <= 0 \/ self[1].height <= 0

BufferSizeMismatch ==
    Len(self[1].data) # self[1].width * self[1].height * 4

SameRGB(d1, d2) ==
    /\ Len(d1) = Len(d2)
    /\ \A j \in 1..Len(d1) : j % 4 # 0 => d1[j] = d2[j]

\* Two calls have returned: the previous one and the one that just ended.
TwoCallsDone ==
    /\ pc = "done"
    /\ result.kind = "returned"
    /\ prev.kind = "returned"

\* C6: two calls whose inputs have the same width and height and agree on
\* R, G and B of every pixel return byte-identical buffers, whether the
\* alpha bytes are equal or not; and the call leaves its input pixel
\* buffer as the canvas gave it.
C6_AlphaIndependent ==
    /\ (TwoCallsDone /\ w = prev.w /\ h = prev.h /\ SameRGB(idata, prev.idata))
          => result.bytes = prev.bytes
    /\ (pc \notin {"idle", "done"} \/ (pc = "done" /\ result.kind = "returned"))
          => [threw |-> FALSE, data |-> idata] \in GetImageData(self[1])

C6_Witness ==
    /\ TwoCallsDone
    /\ ValidCall
    /\ w = prev.w /\ h = prev.h /\ SameRGB(idata, prev.idata)
    /\ \E j \in 1..Len(idata) :
         /\ j % 4 = 0
         /\ idata[j] = 0
         /\ prev.idata[j] = 255
         /\ idata[j - 1] > 0

\* C7: the promise of fromURI settles at most once; it is fulfilled only
\* by the load event, with a CanvasToBMP whose canvas has the image's
\* width and height and the image drawn on it; the error event rejects
\* it with the event's error value and constructs no CanvasToBMP, so no
\* toArrayBuffer call is ever started after a failed load.
C7_Step ==
    /\ promise.state \in {"fulfilled", "rejected"} => promise' = promise
    /\ (promise.state = "pending" /\ promise'.state = "fulfilled") =>
         /\ img.state = "loading" /\ img'.state = "loaded"
         /\ Len(self) = 0 /\ Len(self') = 1
         /\ promise'.value = self'
         /\ self' = elt'
         /\ self'[1].width = surface.width
         /\ self'[1].height = surface.height
         /\ ~self'[1].blank
         /\ self'[1].data = DrawImage(surface.data)
    /\ (img.state = "loading" /\ img'.state = "failed") =>
         /\ promise.state = "pending"
         /\ promise' = [state |-> "rejected", value |-> << img'.err >>]
         /\ self' = << >>
    /\ promise'.state = "rejected" => (self' = << >> /\ call' = 0 /\ pc' = "idle")
    /\ promise'.state = "pending" => (self' = << >> /\ call' = 0)

Dpi72 == (72 * 393701 + 5000) \div 10000

C8_Resolution72Dpi ==
    ValidDone =>
        /\ result.kind = "returned"
        /\ Field(result.bytes, 38, 4) = LEBytes(Dpi72, 4)
        /\ Field(result.bytes, 42, 4) = LEBytes(Dpi72, 4)

Overlap(a, b) == a.off < b.off + b.n /\ b.off < a.off + a.n

\* C10: for a valid input every write lands inside [0, fileLength); the
\* header writes lie in [0, 54), do not overlap, and leave pos = 54; every
\* pixel write lies in [54, fileLength) and no byte is written for two
\* source pixels; s reads the source pixels 0, 1, 2, ... once each and is
\* width * height when the loop ends; no write is refused.
C10_WriteSafety ==
    (ValidCall /\ pc # "idle") =>
        /\ result.kind # "RangeError"
        /\ Len(file) = fileLength
        /\ \A i \in 1..Len(log) :
             /\ log[i].off >= 0 /\ log[i].off + log[i].n <= fileLength
             /\ log[i].src = -1 => log[i].off + log[i].n <= 54
             /\ log[i].src # -1 => log[i].off >= 54
             /\ \A j \in 1..Len(log) :
                  (i # j /\ Overlap(log[i], log[j])) => FALSE
        /\ pc \in {"rows", "cols", "return", "done"} => pos = 54
        /\ pc = "header" => pos < 54
        /\ Len(reads) = s
        /\ \A i \in 1..Len(reads) : reads[i] = i - 1
        /\ s <= w * h
        /\ pc \in {"return", "done"} => s = w * h

C10_Witness ==
    /\ ValidDone
    /\ result.kind = "returned"
    /\ w = 3 /\ h = 3
    /\ s = 9
    /\ Len(log) = 12 + 9
    /\ pos = 54
====
